---- MODULE Spec2Model ----
(***************************************************************************)
(* A model of the kafeido client's stateful core:                          *)
(*   - the cold-start warm-up helpers (kafeido/_warmup.py) and the request *)
(*     facade that gates a request on them (resources/chat.py, client.py,  *)
(*     _async_client.py)                       -- specification Spec       *)
(*   - several wait_for_ready calls running at once on one helper          *)
(*                                             -- SpecConcurrent           *)
(*   - the blocking and the cooperative helper fed the same answers and    *)
(*     clock readings                          -- SpecPair                 *)
(*   - the WebSocket streaming-transcription sessions                      *)
(*     (kafeido/_streaming_transcription.py)   -- SpecTranscription        *)
(*   - the SSE streams (kafeido/_streaming.py) -- SpecStream, SpecDecode   *)
(*   - the transport's retry loop and error mapping                        *)
(*     (kafeido/_http_client.py, types/errors.py) -- SpecTransport         *)
(*   - a stream or a session through its whole life, so that closing can   *)
(*     be followed on either                   -- SpecObjects              *)
(* Each specification moves its own variables and leaves the others at     *)
(* their initial value.                                                    *)
(***************************************************************************)
EXTENDS Integers, Sequences, FiniteSets, TLC

VARIABLES
    client,     \* who calls: "none" (a helper used directly), "sync" (OpenAI), "async" (AsyncOpenAI)
    helper,     \* the warm-up helper in use: <<>> (None) or <<[kind, poll_interval, max_wait_time]>>
    w,          \* the running wait_for_ready / create call
    t,          \* the streaming-transcription session and its consumer
    wire,       \* the frames transmitted on the session's WebSocket, in order
    s,          \* the SSE stream, its response and its consumer
    h,          \* the transport's running request() call
    cc,         \* concurrent wait_for_ready calls on one helper, and their clock
    pr          \* a WarmupHelper and an AsyncWarmupHelper run side by side

vars == <<client, helper, w, t, wire, s, h, cc, pr>>

(***************************************************************************)
(* Bounds of the model.                                                    *)
(***************************************************************************)
MaxWait == 3        \* largest max_wait_time / timeout given to a helper built directly
MaxPoll == 2        \* largest poll_interval given to a helper built directly
MaxDur == 1         \* longest time a trigger or status call takes
MaxJitter == 1      \* longest time a sleep overshoots its interval
MaxUnhealthy == 2   \* largest scripted number of not-healthy answers before "healthy"
MaxPolls == 4       \* status checks followed within one call (cuts only runs under the 300 s default)

Models == {"gpt-oss-20b", "whisper-large-v3"}

(***************************************************************************)
(* Optional values: <<>> is None, <<v>> is a given value.                  *)
(***************************************************************************)
None == <<>>
Some(v) == <<v>>

(***************************************************************************)
(*                      kafeido/_warmup.py                                 *)
(***************************************************************************)
DEFAULT_POLL_INTERVAL == 2
DEFAULT_MAX_WAIT_TIME == 300
HEALTHY_STATUS == "healthy"

\* ModelStatus.status: no status object, or a ModelStatusInfo whose status
\* string is absent or free-form.
StatusInfos == {[status |-> None], [status |-> Some("loading")],
                [status |-> Some("")], [status |-> Some("Healthy")],
                [status |-> Some(HEALTHY_STATUS)]}
StatusAnswers == {None} \cup {Some(i) : i \in StatusInfos}

\* The helper objects: WarmupHelper / AsyncWarmupHelper keep the two
\* callables, the poll interval and the default deadline.
Helper(kind, poll, maxw) == [kind |-> kind, poll_interval |-> poll, max_wait_time |-> maxw]

DirectHelpers == {Helper(k, p, m) : k \in {"sync", "async"}, p \in 1..MaxPoll, m \in 0..MaxWait}

\* The helper each client wires into its resources.  OpenAI.__init__ builds
\* Chat(self._http_client) with no helper; AsyncOpenAI.__init__ builds an
\* AsyncWarmupHelper with the default interval and deadline.
ClientWarmupHelper(c) ==
    IF c = "async"
    THEN Some(Helper("async", DEFAULT_POLL_INTERVAL, DEFAULT_MAX_WAIT_TIME))
    ELSE None

\* A variant of the choice of deadline that takes the default for every
\* falsy timeout (`timeout or self._max_wait_time`).
EffectiveTimeoutEager(timeout) ==
    IF timeout # None /\ timeout[1] # 0 THEN timeout[1] ELSE helper[1].max_wait_time

\* max_wait = timeout if timeout is not None else self._max_wait_time
EffectiveTimeout(timeout) ==
    IF timeout # None THEN timeout[1] ELSE helper[1].max_wait_time

\* A variant of the deadline test that lets elapsed = max_wait pass.
DeadlineReachedStrict(elapsed, max_wait) == elapsed > max_wait

\* if elapsed >= max_wait
DeadlineReached(elapsed, max_wait) == elapsed >= max_wait

\* A variant of the health test that accepts any status string.
IsHealthyAnyStatus(status) == status # None /\ status[1].status # None

\* A variant of the health test that compares the status string without
\* regard to case.
IsHealthyIgnoringCase(status) ==
    status # None /\ status[1].status \in {Some("healthy"), Some("Healthy")}

\* status.status and status.status.status == HEALTHY_STATUS
IsHealthy(status) == status # None /\ status[1].status = Some(HEALTHY_STATUS)

\* WarmupTimeoutError(model, waited_seconds)
WarmupTimeoutError(model, waited) ==
    [type |-> "WarmupTimeoutError", model |-> model, waited_seconds |-> waited]

\* A failure raised by one of the wrapped callables: a transport error or a
\* status error of the endpoint.
CallableError == [type |-> "APIConnectionError", model |-> "", waited_seconds |-> 0]
CallableStatusError == [type |-> "NotFoundError", model |-> "", waited_seconds |-> 0]
CallableErrors == {CallableError, CallableStatusError}

NeverHealthy == -1

IdleCall ==
    [pc |-> "idle", model |-> "", wait |-> FALSE, timeout |-> None, max_wait |-> 0,
     now |-> 0, start_time |-> 0, elapsed |-> 0,
     triggerArgs |-> <<>>, already_warm |-> None,
     healthyAt |-> NeverHealthy, statusCalls |-> 0, sleeps |-> 0,
     lastStatus |-> None, lastStatusDur |-> 0, lastSleepDur |-> 0,
     thrown |-> None, exc |-> None, requests |-> 0,
     overridden |-> FALSE]

\* The answer the status endpoint gives to the k-th check of this call: the
\* environment's script is "not healthy healthyAt times, then healthy".
ScriptedAnswers(k) ==
    IF w.healthyAt # NeverHealthy /\ k >= w.healthyAt
    THEN {Some([status |-> Some("healthy")])}
    ELSE StatusAnswers \ {Some([status |-> Some("healthy")])}

\* helper.wait_for_ready(model, timeout) called directly on a helper.
WaitForReady ==
    /\ w.pc = "idle"
    /\ client = "none"
    /\ \E model \in Models, timeout \in {None} \cup {Some(x) : x \in 0..MaxWait},
          n \in {NeverHealthy} \cup 0..MaxUnhealthy :
         w' = [IdleCall EXCEPT !.overridden = w.overridden,
                               !.pc = "trigger", !.model = model, !.wait = TRUE,
                               !.timeout = timeout,
                               !.max_wait = EffectiveTimeout(timeout),
                               !.healthyAt = n]
    /\ UNCHANGED <<client, helper, t, wire, s, h, cc, pr>>

\* Completions.create / AsyncCompletions.create up to the request:
\*   if wait_for_ready and self._warmup_helper:
\*       self._warmup_helper.wait_for_ready(model, timeout=warmup_timeout)
Create ==
    /\ w.pc = "idle"
    /\ client # "none"
    /\ \E model \in Models, wait \in BOOLEAN,
          warmup_timeout \in {None} \cup {Some(x) : x \in 0..MaxWait},
          n \in {NeverHealthy} \cup 0..MaxUnhealthy :
         IF wait /\ helper # None
         THEN w' = [IdleCall EXCEPT !.overridden = w.overridden,
                                    !.pc = "trigger", !.model = model, !.wait = wait,
                                    !.timeout = warmup_timeout,
                                    !.max_wait = EffectiveTimeout(warmup_timeout),
                                    !.healthyAt = n]
         ELSE w' = [IdleCall EXCEPT !.overridden = w.overridden,
                                    !.pc = "request", !.model = model, !.wait = wait,
                                    !.timeout = warmup_timeout, !.healthyAt = n]
    /\ UNCHANGED <<client, helper, t, wire, s, h, cc, pr>>

\* A variant of the trigger step that skips the trigger call when the
\* deadline is zero.
TriggerWarmupUnlessZero ==
    /\ w.pc = "trigger"
    /\ \E d \in 0..MaxDur, warm \in BOOLEAN, thrown \in {None} \cup {Some(e) : e \in CallableErrors} :
         LET called == IF w.max_wait = 0 THEN w.triggerArgs
                       ELSE Append(w.triggerArgs, w.model)
             after  == [w EXCEPT !.triggerArgs = called, !.now = w.now + d]
         IN  IF thrown # None
             THEN w' = [after EXCEPT !.pc = "raised", !.exc = thrown, !.thrown = thrown]
             ELSE IF warm
             THEN w' = [after EXCEPT !.pc = "ok", !.already_warm = Some(TRUE)]
             ELSE w' = [after EXCEPT !.pc = "check", !.already_warm = Some(FALSE),
                                     !.start_time = after.now]
    /\ UNCHANGED <<client, helper, t, wire, s, h, cc, pr>>

\* A variant of the trigger step that polls even when already_warm is true.
TriggerWarmupIgnoreWarm ==
    /\ w.pc = "trigger"
    /\ \E d \in 0..MaxDur, warm \in BOOLEAN, thrown \in {None} \cup {Some(e) : e \in CallableErrors} :
         LET after == [w EXCEPT !.triggerArgs = Append(w.triggerArgs, w.model),
                                !.now = w.now + d]
         IN  IF thrown # None
             THEN w' = [after EXCEPT !.pc = "raised", !.exc = thrown, !.thrown = thrown]
             ELSE w' = [after EXCEPT !.pc = "check", !.already_warm = Some(warm),
                                     !.start_time = after.now]
    /\ UNCHANGED <<client, helper, t, wire, s, h, cc, pr>>

\* A variant of the trigger step that reads the start time before the trigger
\* is called.
TriggerWarmupClockFirst ==
    /\ w.pc = "trigger"
    /\ \E d \in 0..MaxDur, warm \in BOOLEAN, thrown \in {None} \cup {Some(e) : e \in CallableErrors} :
         LET after == [w EXCEPT !.triggerArgs = Append(w.triggerArgs, w.model),
                                !.now = w.now + d]
         IN  IF thrown # None
             THEN w' = [after EXCEPT !.pc = "raised", !.exc = thrown, !.thrown = thrown]
             ELSE IF warm
             THEN w' = [after EXCEPT !.pc = "ok", !.already_warm = Some(TRUE)]
             ELSE w' = [after EXCEPT !.pc = "check", !.already_warm = Some(FALSE),
                                     !.start_time = w.now]
    /\ UNCHANGED <<client, helper, t, wire, s, h, cc, pr>>

\* warmup_response = self._warmup_fn(model); if already_warm: return;
\* start_time = time.monotonic()
TriggerWarmup ==
    /\ w.pc = "trigger"
    /\ \E d \in 0..MaxDur, warm \in BOOLEAN, thrown \in {None} \cup {Some(e) : e \in CallableErrors} :
         LET after == [w EXCEPT !.triggerArgs = Append(w.triggerArgs, w.model),
                                !.now = w.now + d]
         IN  IF thrown # None
             THEN w' = [after EXCEPT !.pc = "raised", !.exc = thrown, !.thrown = thrown]
             ELSE IF warm
             THEN w' = [after EXCEPT !.pc = "ok", !.already_warm = Some(TRUE)]
             ELSE w' = [after EXCEPT !.pc = "check", !.already_warm = Some(FALSE),
                                     !.start_time = after.now]
    /\ UNCHANGED <<client, helper, t, wire, s, h, cc, pr>>

\* A variant of the loop that polls once before it looks at the deadline.
DeadlineCheckAfterFirst ==
    /\ w.pc = "check"
    /\ LET elapsed == w.now - w.start_time
       IN  IF w.statusCalls > 0 /\ DeadlineReached(elapsed, w.max_wait)
           THEN w' = [w EXCEPT !.pc = "timeout", !.elapsed = elapsed,
                               !.exc = Some(WarmupTimeoutError(w.model, elapsed))]
           ELSE w' = [w EXCEPT !.pc = "status", !.elapsed = elapsed]
    /\ UNCHANGED <<client, helper, t, wire, s, h, cc, pr>>

\* elapsed = time.monotonic() - start_time
\* if elapsed >= max_wait: raise WarmupTimeoutError(model, elapsed)
DeadlineCheck ==
    /\ w.pc = "check"
    /\ LET elapsed == w.now - w.start_time
       IN  IF DeadlineReached(elapsed, w.max_wait)
           THEN w' = [w EXCEPT !.pc = "timeout", !.elapsed = elapsed,
                               !.exc = Some(WarmupTimeoutError(w.model, elapsed))]
           ELSE w' = [w EXCEPT !.pc = "status", !.elapsed = elapsed]
    /\ UNCHANGED <<client, helper, t, wire, s, h, cc, pr>>

\* A variant of the status step that takes a failing status check for a
\* not-healthy answer and polls on.
CheckStatusRetrying ==
    /\ w.pc = "status"
    /\ w.statusCalls < MaxPolls
    /\ \E d \in 0..MaxDur, thrown \in {None} \cup {Some(e) : e \in CallableErrors},
          status \in ScriptedAnswers(w.statusCalls) :
         LET after == [w EXCEPT !.statusCalls = w.statusCalls + 1,
                                !.now = w.now + d, !.lastStatusDur = d]
         IN  IF thrown # None
             THEN w' = [after EXCEPT !.pc = "sleep", !.thrown = thrown]
             ELSE IF IsHealthy(status)
             THEN w' = [after EXCEPT !.pc = "ok", !.lastStatus = status]
             ELSE w' = [after EXCEPT !.pc = "sleep", !.lastStatus = status]
    /\ UNCHANGED <<client, helper, t, wire, s, h, cc, pr>>

\* status = self._status_fn(model); if healthy: return
CheckStatus ==
    /\ w.pc = "status"
    /\ w.statusCalls < MaxPolls
    /\ \E d \in 0..MaxDur, thrown \in {None} \cup {Some(e) : e \in CallableErrors}, status \in ScriptedAnswers(w.statusCalls) :
         LET after == [w EXCEPT !.statusCalls = w.statusCalls + 1,
                                !.now = w.now + d, !.lastStatusDur = d]
         IN  IF thrown # None
             THEN w' = [after EXCEPT !.pc = "raised", !.exc = thrown, !.thrown = thrown]
             ELSE IF IsHealthy(status)
             THEN w' = [after EXCEPT !.pc = "ok", !.lastStatus = status]
             ELSE w' = [after EXCEPT !.pc = "sleep", !.lastStatus = status]
    /\ UNCHANGED <<client, helper, t, wire, s, h, cc, pr>>

\* A variant of the sleep that returns at once.
PollSleepReturningAtOnce ==
    /\ w.pc = "sleep"
    /\ w' = [w EXCEPT !.pc = "check", !.sleeps = w.sleeps + 1, !.lastSleepDur = 0]
    /\ UNCHANGED <<client, helper, t, wire, s, h, cc, pr>>

\* time.sleep(self._poll_interval) / await asyncio.sleep(self._poll_interval):
\* the call suspends for at least the interval.
PollSleep ==
    /\ w.pc = "sleep"
    /\ \E j \in 0..MaxJitter :
         w' = [w EXCEPT !.pc = "check", !.sleeps = w.sleeps + 1,
                        !.now = w.now + helper[1].poll_interval + j,
                        !.lastSleepDur = helper[1].poll_interval + j]
    /\ UNCHANGED <<client, helper, t, wire, s, h, cc, pr>>

\* The rest of create: the body is built and the inference request is sent,
\* either at once (no warm-up) or after wait_for_ready has returned.
SendRequest ==
    /\ client # "none"
    /\ w.pc = "request" \/ w.pc = "ok"
    /\ w' = [w EXCEPT !.pc = "sent", !.requests = w.requests + 1]
    /\ UNCHANGED <<client, helper, t, wire, s, h, cc, pr>>

\* The call is over (returned or raised); the helper is ready for another.
\* `overridden` remembers that an earlier call on it gave its own timeout.
Finish ==
    /\ \/ w.pc \in {"timeout", "raised", "sent"}
       \/ w.pc = "ok" /\ client = "none"
    /\ w' = [IdleCall EXCEPT !.overridden = w.overridden \/ w.timeout # None]
    /\ UNCHANGED <<client, helper, t, wire, s, h, cc, pr>>

(***************************************************************************)
(*      kafeido/_warmup.py: wait_for_ready calls running concurrently      *)
(***************************************************************************)
MaxClock == 3       \* how far the shared monotonic clock is followed

\* The calls in flight on the one helper (threads on a WarmupHelper, tasks
\* on an AsyncWarmupHelper).
Calls == {1, 2}

\* The locals of one wait_for_ready call.
IdleLocal ==
    [pc |-> "idle", model |-> "", max_wait |-> 0, healthyAt |-> NeverHealthy,
     triggers |-> 0, statusCalls |-> 0, sleeps |-> 0,
     start_time |-> 0, checkedAt |-> 0, elapsed |-> 0, wakeAt |-> 0,
     thrown |-> None, exc |-> None]

IdleCalls == [clock |-> 0, calls |-> [i \in Calls |-> IdleLocal]]

\* The helpers that serve concurrent calls.
SharedHelpers == {Helper(k, 1, 2) : k \in {"sync", "async"}}

\* A variant in which the helper keeps the start time in a field of its own,
\* which the latest call to start has overwritten.
TimerStartShared(calls, i) ==
    LET started == {j \in Calls : calls[j].pc \notin {"idle", "trigger"}}
        latest  == CHOOSE j \in started : \A k \in started : calls[k].start_time <= calls[j].start_time
    IN  calls[latest].start_time

\* start_time is a local of the call.
TimerStart(calls, i) == calls[i].start_time

\* Time passes, whatever the calls are doing.
Tick ==
    /\ cc.clock < MaxClock
    /\ \E i \in Calls : cc.calls[i].pc # "idle"
    /\ cc' = [cc EXCEPT !.clock = cc.clock + 1]
    /\ UNCHANGED <<client, helper, w, t, wire, s, h, pr>>

\* A thread or task enters wait_for_ready(model, timeout); the second call
\* is for the first call's model or for the other one.
CallStart(i) ==
    /\ cc.calls[i].pc = "idle"
    /\ \E model \in (IF i = 1 THEN {"gpt-oss-20b"} ELSE Models),
          timeout \in {None, Some(1)},
          n \in {NeverHealthy, 1} :
         cc' = [cc EXCEPT !.calls[i] =
                   [IdleLocal EXCEPT !.pc = "trigger", !.model = model,
                                     !.max_wait = EffectiveTimeout(timeout),
                                     !.healthyAt = n]]
    /\ UNCHANGED <<client, helper, w, t, wire, s, h, pr>>

\* warmup_response = self._warmup_fn(model); if already_warm: return;
\* start_time = time.monotonic()
CallTrigger(i) ==
    /\ cc.calls[i].pc = "trigger"
    /\ \E warm \in BOOLEAN, thrown \in {None, Some(CallableError)} :
         LET c == [cc.calls[i] EXCEPT !.triggers = cc.calls[i].triggers + 1]
         IN  cc' = [cc EXCEPT !.calls[i] =
                       IF thrown # None
                       THEN [c EXCEPT !.pc = "raised", !.exc = thrown, !.thrown = thrown]
                       ELSE IF warm THEN [c EXCEPT !.pc = "ok"]
                       ELSE [c EXCEPT !.pc = "check", !.start_time = cc.clock]]
    /\ UNCHANGED <<client, helper, w, t, wire, s, h, pr>>

\* elapsed = time.monotonic() - start_time
\* if elapsed >= max_wait: raise WarmupTimeoutError(model, elapsed)
CallDeadlineCheck(i) ==
    /\ cc.calls[i].pc = "check"
    /\ LET c       == cc.calls[i]
           elapsed == cc.clock - TimerStart(cc.calls, i)
       IN  cc' = [cc EXCEPT !.calls[i] =
                     IF DeadlineReached(elapsed, c.max_wait)
                     THEN [c EXCEPT !.pc = "timeout", !.elapsed = elapsed,
                                    !.checkedAt = cc.clock,
                                    !.exc = Some(WarmupTimeoutError(c.model, elapsed))]
                     ELSE [c EXCEPT !.pc = "status", !.elapsed = elapsed,
                                    !.checkedAt = cc.clock]]
    /\ UNCHANGED <<client, helper, w, t, wire, s, h, pr>>

\* status = self._status_fn(model); if healthy: return; then the sleep starts
CallCheckStatus(i) ==
    /\ cc.calls[i].pc = "status"
    /\ \E thrown \in {None, Some(CallableError)} :
         LET c0     == cc.calls[i]
             c      == [c0 EXCEPT !.statusCalls = c0.statusCalls + 1]
             status == IF c0.healthyAt # NeverHealthy /\ c0.statusCalls >= c0.healthyAt
                       THEN Some([status |-> Some("healthy")])
                       ELSE Some([status |-> Some("loading")])
         IN  cc' = [cc EXCEPT !.calls[i] =
                       IF thrown # None
                       THEN [c EXCEPT !.pc = "raised", !.exc = thrown, !.thrown = thrown]
                       ELSE IF IsHealthy(status) THEN [c EXCEPT !.pc = "ok"]
                       ELSE [c EXCEPT !.pc = "sleep",
                                      !.wakeAt = cc.clock + helper[1].poll_interval]]
    /\ UNCHANGED <<client, helper, w, t, wire, s, h, pr>>

\* time.sleep(self._poll_interval) / await asyncio.sleep(self._poll_interval)
\* returns, no earlier than the interval after it began.
CallWake(i) ==
    /\ cc.calls[i].pc = "sleep"
    /\ cc.clock >= cc.calls[i].wakeAt
    /\ cc' = [cc EXCEPT !.calls[i].pc = "check",
                        !.calls[i].sleeps = cc.calls[i].sleeps + 1]
    /\ UNCHANGED <<client, helper, w, t, wire, s, h, pr>>

(***************************************************************************)
(*   kafeido/_warmup.py: WarmupHelper and AsyncWarmupHelper side by side   *)
(***************************************************************************)
\* The locals of one wait_for_ready call together with what it has done:
\* `trace` lists its trigger, status-check and sleep steps in order.
IdleRun ==
    [pc |-> "idle", model |-> "", max_wait |-> 0, now |-> 0, start_time |-> 0,
     trace |-> <<>>, exc |-> None]

IdlePair == [poll_interval |-> 1, sync |-> IdleRun, async |-> IdleRun]

\* What the environment gives to one pass of a call: the trigger's answer or
\* the status answer, a failure of the callable, how long the callable took
\* and how far the sleep overshot.
PassInputs ==
    [warm : BOOLEAN, thrown : {None, Some(CallableError)}, status : StatusAnswers,
     dcall : 0..MaxDur, jitter : 0..MaxJitter]

\* WarmupHelper.wait_for_ready, one pass: the trigger and the clock start,
\* or one turn of the loop (deadline, status check, time.sleep).
SyncPass(c, poll_interval, in) ==
    IF c.pc = "trigger"
    THEN LET a == [c EXCEPT !.now = c.now + in.dcall,
                            !.trace = Append(c.trace, "trigger")]
         IN  IF in.thrown # None THEN [a EXCEPT !.pc = "raised", !.exc = in.thrown]
             ELSE IF in.warm THEN [a EXCEPT !.pc = "ok"]
             ELSE [a EXCEPT !.pc = "loop", !.start_time = a.now]
    ELSE IF c.pc = "loop"
    THEN LET elapsed == c.now - c.start_time
         IN  IF DeadlineReached(elapsed, c.max_wait)
             THEN [c EXCEPT !.pc = "timeout",
                            !.exc = Some(WarmupTimeoutError(c.model, elapsed))]
             ELSE LET a == [c EXCEPT !.now = c.now + in.dcall,
                                     !.trace = Append(c.trace, "status")]
                  IN  IF in.thrown # None
                      THEN [a EXCEPT !.pc = "raised", !.exc = in.thrown]
                      ELSE IF IsHealthy(in.status) THEN [a EXCEPT !.pc = "ok"]
                      ELSE [a EXCEPT !.now = a.now + poll_interval + in.jitter,
                                     !.trace = Append(a.trace, "sleep")]
    ELSE c

\* A variant of the cooperative helper that checks the status before the
\* deadline.
AsyncPassStatusFirst(c, poll_interval, in) ==
    IF c.pc = "trigger"
    THEN LET a == [c EXCEPT !.now = c.now + in.dcall,
                            !.trace = Append(c.trace, "trigger")]
         IN  IF in.thrown # None THEN [a EXCEPT !.pc = "raised", !.exc = in.thrown]
             ELSE IF in.warm THEN [a EXCEPT !.pc = "ok"]
             ELSE [a EXCEPT !.pc = "loop", !.start_time = a.now]
    ELSE IF c.pc = "loop"
    THEN LET a == [c EXCEPT !.now = c.now + in.dcall,
                            !.trace = Append(c.trace, "status")]
         IN  IF in.thrown # None
             THEN [a EXCEPT !.pc = "raised", !.exc = in.thrown]
             ELSE IF IsHealthy(in.status) THEN [a EXCEPT !.pc = "ok"]
             ELSE IF DeadlineReached(a.now - a.start_time, a.max_wait)
             THEN [a EXCEPT !.pc = "timeout",
                            !.exc = Some(WarmupTimeoutError(a.model, a.now - a.start_time))]
             ELSE [a EXCEPT !.now = a.now + poll_interval + in.jitter,
                            !.trace = Append(a.trace, "sleep")]
    ELSE c

\* AsyncWarmupHelper.wait_for_ready, one pass: the awaited trigger and the
\* clock start, or one turn of the loop (deadline, awaited status check,
\* await asyncio.sleep).
AsyncPass(c, poll_interval, in) ==
    IF c.pc = "trigger"
    THEN LET a == [c EXCEPT !.now = c.now + in.dcall,
                            !.trace = Append(c.trace, "trigger")]
         IN  IF in.thrown # None THEN [a EXCEPT !.pc = "raised", !.exc = in.thrown]
             ELSE IF in.warm THEN [a EXCEPT !.pc = "ok"]
             ELSE [a EXCEPT !.pc = "loop", !.start_time = a.now]
    ELSE IF c.pc = "loop"
    THEN LET elapsed == c.now - c.start_time
         IN  IF DeadlineReached(elapsed, c.max_wait)
             THEN [c EXCEPT !.pc = "timeout",
                            !.exc = Some(WarmupTimeoutError(c.model, elapsed))]
             ELSE LET a == [c EXCEPT !.now = c.now + in.dcall,
                                     !.trace = Append(c.trace, "status")]
                  IN  IF in.thrown # None
                      THEN [a EXCEPT !.pc = "raised", !.exc = in.thrown]
                      ELSE IF IsHealthy(in.status) THEN [a EXCEPT !.pc = "ok"]
                      ELSE [a EXCEPT !.now = a.now + poll_interval + in.jitter,
                                     !.trace = Append(a.trace, "sleep")]
    ELSE c

\* Two helpers are built with the same poll interval and default deadline
\* and wait_for_ready(model, timeout) is called on each.
PairStart ==
    /\ pr.sync.pc = "idle"
    /\ \E d \in DirectHelpers, model \in Models,
          timeout \in {None} \cup {Some(x) : x \in 0..MaxWait} :
         LET max_wait == IF timeout # None THEN timeout[1] ELSE d.max_wait_time
             run == [IdleRun EXCEPT !.pc = "trigger", !.model = model,
                                    !.max_wait = max_wait]
         IN  d.kind = "sync" /\
             pr' = [poll_interval |-> d.poll_interval, sync |-> run, async |-> run]
    /\ UNCHANGED <<client, helper, w, t, wire, s, h, cc>>

\* Both calls make their next pass on the same answer and the same clock
\* readings.
PairPass ==
    /\ pr.sync.pc \in {"trigger", "loop"} \/ pr.async.pc \in {"trigger", "loop"}
    /\ \E in \in PassInputs :
         pr' = [pr EXCEPT !.sync = SyncPass(pr.sync, pr.poll_interval, in),
                          !.async = AsyncPass(pr.async, pr.poll_interval, in)]
    /\ UNCHANGED <<client, helper, w, t, wire, s, h, cc>>

(***************************************************************************)
(*              kafeido/_streaming_transcription.py                        *)
(***************************************************************************)
MaxSends == 2       \* frames a session puts on the wire
MaxRecvs == 2       \* frames a session reads
MaxCloses == 2      \* close() / scope exits on one session

\* A key of a JSON object is absent, or present with a value.
Absent == <<>>

\* config: Dict[str, Any], as its items in insertion order.
Configs ==
    {<<<<"model", "whisper-large-v3">>>>,
     <<<<"model", "whisper-large-v3">>, <<"language", "en">>>>}

\* json.dumps of a dict of strings, as the text's tokens.
RECURSIVE JsonMembers(_)
JsonMembers(items) ==
    IF items = <<>> THEN <<>>
    ELSE <<"\"", items[1][1], "\"", ": ", "\"", items[1][2], "\"">>
            \o (IF Len(items) > 1 THEN <<", ">> ELSE <<>>)
            \o JsonMembers(Tail(items))

JsonDumps(items) == <<"{">> \o JsonMembers(items) \o <<"}">>

\* What the WebSocket carries: text frames and binary frames.
TextFrame(text) == [type |-> "text", data |-> text]
BinaryFrame(bytes) == [type |-> "binary", data |-> bytes]

\* send(audio_data): chunks of float32 PCM, as tokens.
AudioChunks == {<<"pcm-1">>, <<"pcm-2">>}

\* The JSON objects the server sends (json.loads of an inbound text frame):
\* {"error": ...} frames, transcription frames, and frames with both.
Segment(text) == [start |-> 0, end |-> 1, text |-> text, completed |-> TRUE]
SegmentLists == {<<>>, <<Segment("A")>>}
ErrorTexts == {"model not found", "internal error"}
Frame(error, segments, language) ==
    [error |-> error, segments |-> segments, language |-> language]
InboundFrames ==
    {Frame(Absent, sl, la) : sl \in {Absent} \cup {Some(l) : l \in SegmentLists},
                           la \in {Absent, Some("en")}}
        \cup {Frame(Some(x), sl, Absent) : x \in ErrorTexts,
                                         sl \in {Absent, Some(<<Segment("A")>>)}}

\* StreamingTranscriptionResponse.model_validate(data): absent fields take
\* their defaults, other keys are dropped.
ModelValidate(data) ==
    [segments |-> IF data.segments = Absent THEN <<>> ELSE data.segments[1],
     language |-> IF data.language = Absent THEN None ELSE data.language,
     language_prob |-> None]

Returned(value) == [kind |-> "returned", value |-> Some(value), type |-> "", message |-> ""]
Raised(type, message) == [kind |-> "raised", value |-> None, type |-> type, message |-> message]

\* A variant of recv() that returns a frame carrying segments even when it
\* also carries an error.
RecvOutcomeSegmentsFirst(data) ==
    IF data.error # Absent /\ data.segments = Absent
    THEN Raised("APIError", data.error[1])
    ELSE Returned(ModelValidate(data))

\* recv() after raw = self._ws.recv(); data = json.loads(raw):
\*   if "error" in data: raise APIError(message=data["error"])
\*   return StreamingTranscriptionResponse.model_validate(data)
RecvOutcome(data) ==
    IF data.error # Absent
    THEN Raised("APIError", data.error[1])
    ELSE Returned(ModelValidate(data))

\* What self._ws.recv() raises once the connection is closed.
ConnectionClosed == Raised("ConnectionClosed", "")

\* The connection's close(): it closes an open connection and does nothing
\* on a closed one; either way it returns.
WsClose(isOpen) == [open |-> FALSE, raised |-> FALSE]

\* A variant of the session's close() that refuses a second close.
SessionCloseOnlyOnce(isOpen) ==
    IF isOpen THEN WsClose(isOpen) ELSE [open |-> FALSE, raised |-> TRUE]

\* close(): self._ws.close() / await self._ws.close()
SessionClose(isOpen) == WsClose(isOpen)

IdleSession ==
    [state |-> "none", kind |-> "", config |-> <<>>,
     wsAcquired |-> FALSE, wsOpen |-> FALSE, closeCalls |-> 0, closeRaised |-> FALSE,
     scope |-> "out", blockRaised |-> FALSE,
     iter |-> "none", yielded |-> <<>>, iterRaws |-> <<>>,
     recvs |-> 0, lastRaw |-> None, last |-> None, lastSend |-> None,
     errorsRead |-> 0, errorsSurfaced |-> 0]

\* StreamingTranscription.__init__: connect, then send the config frame.
\* Either step can fail; the constructor has no handler around them.
SyncConstruct ==
    /\ t.state = "none"
    /\ \E config \in Configs, connects \in BOOLEAN, sends \in BOOLEAN :
         IF ~connects
         THEN /\ t' = [t EXCEPT !.state = "failed", !.kind = "sync", !.config = config]
              /\ wire' = wire
         ELSE IF ~sends
         THEN /\ t' = [t EXCEPT !.state = "failed", !.kind = "sync", !.config = config,
                                !.wsAcquired = TRUE, !.wsOpen = TRUE]
              /\ wire' = wire
         ELSE /\ t' = [t EXCEPT !.state = "open", !.kind = "sync", !.config = config,
                                !.wsAcquired = TRUE, !.wsOpen = TRUE]
              /\ wire' = Append(wire, TextFrame(JsonDumps(config)))
    /\ UNCHANGED <<client, helper, w, s, h, cc, pr>>

\* AsyncStreamingTranscription.__init__(ws, config): keeps the open
\* connection and the config; nothing is sent.
AsyncConstruct ==
    /\ t.state = "none"
    /\ \E config \in Configs :
         t' = [t EXCEPT !.state = "open", !.kind = "async", !.config = config,
                        !.wsAcquired = TRUE, !.wsOpen = TRUE]
    /\ UNCHANGED <<client, helper, w, wire, s, h, cc, pr>>

\* AsyncStreamingTranscription._send_config
SendConfig ==
    /\ t.state = "open"
    /\ t.kind = "async"
    /\ Len(wire) < MaxSends
    /\ IF t.wsOpen
       THEN /\ wire' = Append(wire, TextFrame(JsonDumps(t.config)))
            /\ t' = [t EXCEPT !.lastSend = Some("sent")]
       ELSE /\ wire' = wire
            /\ t' = [t EXCEPT !.lastSend = Some("ConnectionClosed")]
    /\ UNCHANGED <<client, helper, w, s, h, cc, pr>>

\* send(audio_data), both sessions
SendAudio ==
    /\ t.state = "open"
    /\ Len(wire) < MaxSends
    /\ \E audio \in AudioChunks :
         IF t.wsOpen
         THEN /\ wire' = Append(wire, BinaryFrame(audio))
              /\ t' = [t EXCEPT !.lastSend = Some("sent")]
         ELSE /\ wire' = wire
              /\ t' = [t EXCEPT !.lastSend = Some("ConnectionClosed")]
    /\ UNCHANGED <<client, helper, w, s, h, cc, pr>>

\* What self._ws.recv() can deliver: a frame while the connection is open,
\* or the exception of a closed connection.
Deliveries == IF t.wsOpen THEN {Some(f) : f \in InboundFrames} \cup {None} ELSE {None}

\* A direct recv() call by the consumer.
Recv ==
    /\ t.state = "open"
    /\ t.recvs < MaxRecvs
    /\ \E raw \in Deliveries :
         LET outcome == IF raw = None THEN ConnectionClosed ELSE RecvOutcome(raw[1])
             isError == raw # None /\ raw[1].error # Absent
         IN  t' = [t EXCEPT !.recvs = t.recvs + 1, !.lastRaw = raw, !.last = Some(outcome),
                            !.errorsRead = IF isError THEN t.errorsRead + 1 ELSE t.errorsRead,
                            !.errorsSurfaced = IF outcome.kind = "raised" /\ outcome.type = "APIError"
                                               THEN t.errorsSurfaced + 1 ELSE t.errorsSurfaced]
    /\ UNCHANGED <<client, helper, w, wire, s, h, cc, pr>>

\* A variant of the iteration that lets a server error reach the consumer.
IterNextRaisingAPIError ==
    /\ t.state = "open"
    /\ t.iter \in {"none", "running"}
    /\ t.recvs < MaxRecvs
    /\ \E raw \in Deliveries :
         LET outcome == IF raw = None THEN ConnectionClosed ELSE RecvOutcome(raw[1])
             isError == raw # None /\ raw[1].error # Absent
         IN  IF outcome.kind = "raised"
             THEN t' = [t EXCEPT !.recvs = t.recvs + 1,
                                 !.iter = IF outcome.type = "APIError" THEN "raised" ELSE "done",
                                 !.iterRaws = Append(t.iterRaws, raw),
                                 !.errorsRead = IF isError THEN t.errorsRead + 1 ELSE t.errorsRead]
             ELSE t' = [t EXCEPT !.recvs = t.recvs + 1, !.iter = "running",
                                 !.iterRaws = Append(t.iterRaws, raw),
                                 !.yielded = Append(t.yielded, outcome.value[1])]
    /\ UNCHANGED <<client, helper, w, wire, s, h, cc, pr>>

\* One step of `for response in stream` (__iter__ / __aiter__):
\*   try: while True: yield self.recv()
\*   except Exception: return
\* `iterRaws` lists what this iteration has received, `yielded` what it has
\* handed to the consumer.
IterNext ==
    /\ t.state = "open"
    /\ t.iter \in {"none", "running"}
    /\ t.recvs < MaxRecvs
    /\ \E raw \in Deliveries :
         LET outcome == IF raw = None THEN ConnectionClosed ELSE RecvOutcome(raw[1])
             isError == raw # None /\ raw[1].error # Absent
         IN  IF outcome.kind = "raised"
             THEN t' = [t EXCEPT !.recvs = t.recvs + 1, !.iter = "done",
                                 !.iterRaws = Append(t.iterRaws, raw),
                                 !.errorsRead = IF isError THEN t.errorsRead + 1 ELSE t.errorsRead]
             ELSE t' = [t EXCEPT !.recvs = t.recvs + 1, !.iter = "running",
                                 !.iterRaws = Append(t.iterRaws, raw),
                                 !.yielded = Append(t.yielded, outcome.value[1])]
    /\ UNCHANGED <<client, helper, w, wire, s, h, cc, pr>>

\* Another `for response in stream` on the same session: __iter__ /
\* __aiter__ is a generator function, so the loop runs a fresh generator.
IterAgain ==
    /\ t.state = "open"
    /\ t.iter \in {"running", "done"}
    /\ t.recvs < MaxRecvs
    /\ t' = [t EXCEPT !.iter = "none", !.yielded = <<>>, !.iterRaws = <<>>]
    /\ UNCHANGED <<client, helper, w, wire, s, h, cc, pr>>

\* close(): self._ws.close()
Close ==
    /\ t.state = "open"
    /\ t.closeCalls < MaxCloses
    /\ LET closed == SessionClose(t.wsOpen)
       IN  t' = [t EXCEPT !.wsOpen = closed.open, !.closeCalls = t.closeCalls + 1,
                          !.closeRaised = t.closeRaised \/ closed.raised]
    /\ UNCHANGED <<client, helper, w, wire, s, h, cc, pr>>

\* `with stream:` / `async with stream:` -- __enter__ returns self
EnterScope ==
    /\ t.state = "open"
    /\ t.scope = "out"
    /\ t' = [t EXCEPT !.scope = "in"]
    /\ UNCHANGED <<client, helper, w, wire, s, h, cc, pr>>

\* The block ends, normally or by an exception: __exit__ calls close().
ExitScope ==
    /\ t.state = "open"
    /\ t.scope = "in"
    /\ \E raised \in BOOLEAN :
         LET closed == SessionClose(t.wsOpen)
         IN  t' = [t EXCEPT !.scope = "exited", !.blockRaised = raised,
                            !.wsOpen = closed.open, !.closeCalls = t.closeCalls + 1,
                            !.closeRaised = t.closeRaised \/ closed.raised]
    /\ UNCHANGED <<client, helper, w, wire, s, h, cc, pr>>

(***************************************************************************)
(*                        kafeido/_streaming.py                            *)
(***************************************************************************)
MaxLines == 2       \* lines of one SSE response body
MaxBody == 4        \* lines of one SSE response body when only decoding is followed

\* A line is a sequence of characters; a JSON payload or the sentinel counts
\* as one character of it.
Space == " "
DataMarker == <<"d", "a", "t", "a", ":", Space>>
MarkerLen == 6
Sentinel == <<"[DONE]">>

\* JSON texts and what json.loads makes of them.
JsonTexts == {"{\"a\":1}", "{\"a\":2}", "{\"b\":1}"}
JsonValue(text) ==
    CASE text = "{\"a\":1}" -> [a |-> Some(1)]
      [] text = "{\"a\":2}" -> [a |-> Some(2)]
      [] OTHER -> [a |-> Absent]

SseLines ==
    {<<>>,
     DataMarker \o <<"{\"a\":1}">>,
     <<Space>> \o DataMarker \o <<"{\"a\":2}">> \o <<Space>>,
     DataMarker \o <<"{\"b\":1}">>,
     DataMarker \o <<"not-json">>,
     DataMarker \o Sentinel,
     <<"e", "v", "e", "n", "t", ":", Space, "ping">>,
     <<"d", "a", "t", "a", ":", "{\"a\":1}">>}

\* The lines of the longer bodies: the data lines, the sentinel and the empty
\* line of the above, and another field that carries a JSON text.
BodyLines ==
    {<<>>,
     DataMarker \o <<"{\"a\":1}">>,
     <<Space>> \o DataMarker \o <<"{\"a\":2}">> \o <<Space>>,
     DataMarker \o <<"{\"b\":1}">>,
     DataMarker \o <<"not-json">>,
     DataMarker \o Sentinel,
     <<"e", "v", "e", "n", "t", ":", "{\"a\":1}">>}

RECURSIVE LinesInputs(_, _)
LinesInputs(alphabet, n) ==
    IF n = 0 THEN {<<>>}
    ELSE LET shorter == LinesInputs(alphabet, n - 1)
         IN  shorter \cup {Append(i, l) : i \in {x \in shorter : Len(x) = n - 1},
                                          l \in alphabet}

SseInputs(n) == LinesInputs(SseLines, n)

\* str.strip()
RECURSIVE LStrip(_)
LStrip(line) ==
    IF line # <<>> /\ line[1] = Space THEN LStrip(Tail(line)) ELSE line

RECURSIVE RStrip(_)
RStrip(line) ==
    IF line # <<>> /\ line[Len(line)] = Space
    THEN RStrip(SubSeq(line, 1, Len(line) - 1))
    ELSE line

Strip(line) == RStrip(LStrip(line))

\* A variant of the marker test that accepts every line long enough to carry
\* a marker.
StartsWithAnything(line) == Len(line) >= Len(DataMarker)

\* line.startswith("data: ")
StartsWithData(line) ==
    Len(line) >= Len(DataMarker) /\ SubSeq(line, 1, Len(DataMarker)) = DataMarker

\* line[6:]
Payload(line) == SubSeq(line, MarkerLen + 1, Len(line))

\* json.loads(data): the parsed value, or None for JSONDecodeError.
JsonLoads(data) ==
    LET text == Strip(data)
    IN  IF Len(text) = 1 /\ text[1] \in JsonTexts THEN Some(JsonValue(text[1])) ELSE None

\* cast_to.model_validate(json_data): the typed object, or None for a
\* validation error (the required field is missing).
CastValidate(value) ==
    IF value.a = Absent THEN None ELSE Some([type |-> "chunk", a |-> value.a[1]])

\* A variant of the line step without the sentinel test: `[DONE]` goes to the
\* JSON parser like any other payload.
LineStepNoSentinel(chunk, hasValidate) ==
    LET line == Strip(chunk)
    IN  IF line = <<>> THEN [do |-> "skip", event |-> None]
        ELSE IF ~StartsWithData(line) THEN [do |-> "skip", event |-> None]
        ELSE LET json_data == JsonLoads(Payload(line))
             IN  IF json_data = None THEN [do |-> "skip", event |-> None]
                 ELSE IF hasValidate
                 THEN IF CastValidate(json_data[1]) = None
                      THEN [do |-> "skip", event |-> None]
                      ELSE [do |-> "yield", event |-> CastValidate(json_data[1])]
                 ELSE [do |-> "yield", event |-> json_data]

\* A variant of the line step that leaves the loop on a payload that does
\* not parse or does not validate.
LineStepMalformedBreaks(chunk, hasValidate) ==
    LET line == Strip(chunk)
    IN  IF line = <<>> THEN [do |-> "skip", event |-> None]
        ELSE IF ~StartsWithData(line) THEN [do |-> "skip", event |-> None]
        ELSE IF Payload(line) = Sentinel THEN [do |-> "break", event |-> None]
        ELSE LET json_data == JsonLoads(Payload(line))
             IN  IF json_data = None THEN [do |-> "break", event |-> None]
                 ELSE IF hasValidate
                 THEN IF CastValidate(json_data[1]) = None
                      THEN [do |-> "break", event |-> None]
                      ELSE [do |-> "yield", event |-> CastValidate(json_data[1])]
                 ELSE [do |-> "yield", event |-> json_data]

\* What one line makes the generator do: "skip" it, "break" out of the loop,
\* or "yield" an event.
LineStep(chunk, hasValidate) ==
    LET line == Strip(chunk)
    IN  IF line = <<>> THEN [do |-> "skip", event |-> None]
        ELSE IF ~StartsWithData(line) THEN [do |-> "skip", event |-> None]
        ELSE IF Payload(line) = Sentinel THEN [do |-> "break", event |-> None]
        ELSE LET json_data == JsonLoads(Payload(line))
             IN  IF json_data = None THEN [do |-> "skip", event |-> None]
                 ELSE IF hasValidate
                 THEN IF CastValidate(json_data[1]) = None
                      THEN [do |-> "skip", event |-> None]
                      ELSE [do |-> "yield", event |-> CastValidate(json_data[1])]
                 ELSE [do |-> "yield", event |-> json_data]

\* The generator resumed on the remaining lines: it runs to its next yield,
\* to the sentinel or to the end of the lines.  `used` counts the lines read.
RECURSIVE RunGenerator(_, _, _)
RunGenerator(lines, hasValidate, used) ==
    IF lines = <<>> THEN [how |-> "exhausted", used |-> used, event |-> None]
    ELSE LET step == LineStep(Head(lines), hasValidate)
         IN  CASE step.do = "yield" -> [how |-> "yield", used |-> used + 1, event |-> step.event]
               [] step.do = "break" -> [how |-> "sentinel", used |-> used + 1, event |-> None]
               [] OTHER -> RunGenerator(Tail(lines), hasValidate, used + 1)

\* A variant that closes the response only when the loop ends normally.
FinallyClosesUnlessRaised(how) == how # "raised"

\* finally: self.response.close() -- on which ways out of the generator body
\* the response is closed.
FinallyCloses(how) == how \in {"exhausted", "sentinel", "raised"}

\* The response's close() / aclose(): it marks an open response closed and
\* does nothing on a closed one; either way it returns.
ResponseClose(isClosed) == [closed |-> TRUE, raised |-> FALSE]

\* A variant of the stream's close() that refuses a second close.
StreamCloseOnlyOnce(isClosed) ==
    IF isClosed THEN [closed |-> TRUE, raised |-> TRUE] ELSE ResponseClose(isClosed)

\* close(): self.response.close() / await self.response.aclose()
StreamClose(isClosed) == ResponseClose(isClosed)

IdleStream ==
    [state |-> "none", kind |-> "", hasValidate |-> FALSE,
     source |-> <<>>, input |-> <<>>, inputFails |-> FALSE,
     iterator |-> "none", events |-> <<>>, stopped |-> FALSE, reiteratedAt |-> None,
     responseClosed |-> FALSE, closeCalls |-> 0, closeRaised |-> FALSE,
     scope |-> "out", blockRaised |-> FALSE]

\* Stream(response, cast_to) / AsyncStream(response, cast_to) over a response
\* whose body will deliver `input` and then end, or fail.
OpenStream ==
    /\ s.state = "none"
    /\ \E kind \in {"sync", "async"}, hasValidate \in BOOLEAN,
          input \in SseInputs(MaxLines), fails \in BOOLEAN :
         s' = [IdleStream EXCEPT !.state = "open", !.kind = kind,
                                 !.hasValidate = hasValidate,
                                 !.source = input,
                                 !.input = input, !.inputFails = fails]
    /\ UNCHANGED <<client, helper, w, t, wire, h, cc, pr>>

\* The same construction over a longer body, for runs that only iterate.
OpenBody ==
    /\ s.state = "none"
    /\ \E kind \in {"sync", "async"}, hasValidate \in BOOLEAN,
          input \in LinesInputs(BodyLines, MaxBody), fails \in BOOLEAN :
         s' = [IdleStream EXCEPT !.state = "open", !.kind = kind,
                                 !.hasValidate = hasValidate,
                                 !.source = input,
                                 !.input = input, !.inputFails = fails]
    /\ UNCHANGED <<client, helper, w, t, wire, h, cc, pr>>

\* __iter__ / __aiter__: the one generator is created on first use.
Iter ==
    /\ s.state = "open"
    /\ s.iterator = "none"
    /\ s' = [s EXCEPT !.iterator = "created"]
    /\ UNCHANGED <<client, helper, w, t, wire, h, cc, pr>>

\* A variant of __iter__ that starts a new generator each time; the new
\* generator reads the buffered body from its first line.
FreshIterator(iterator, input, source) == [iterator |-> "created", input |-> source]

\* if self._iterator is None: self._iterator = self._stream()
\* return self._iterator -- with a generator at hand, that one is handed out.
SharedIterator(iterator, input, source) ==
    IF iterator = "none" THEN [iterator |-> "created", input |-> input]
    ELSE [iterator |-> iterator, input |-> input]

\* __iter__ / __aiter__ again, by a for-loop started after next() calls or
\* after an earlier loop.  `reiteratedAt` remembers how many events had been
\* yielded by then.
IterShared ==
    /\ s.state = "open"
    /\ s.iterator # "none"
    /\ s.reiteratedAt = None
    /\ LET it == SharedIterator(s.iterator, s.input, s.source)
       IN  s' = [s EXCEPT !.iterator = it.iterator, !.input = it.input,
                          !.reiteratedAt = Some(Len(s.events))]
    /\ UNCHANGED <<client, helper, w, t, wire, h, cc, pr>>

\* What the response still delivers to a resumed generator.  An open
\* response delivers its body; a closed one delivers what was buffered, if
\* anything, and then ends or fails.
Readable ==
    IF ~s.responseClosed THEN {[lines |-> s.input, fails |-> s.inputFails]}
    ELSE IF s.iterator = "running"
    THEN {[lines |-> SubSeq(s.input, 1, k), fails |-> f] :
              k \in 0..Len(s.input), f \in BOOLEAN}
    ELSE {[lines |-> s.input, fails |-> FALSE], [lines |-> <<>>, fails |-> TRUE]}

\* __next__ / __anext__, and each step of a for-loop: the generator runs to
\* its next yield or to its end; leaving the body runs the finally clause.
Pull ==
    /\ s.state = "open"
    /\ s.iterator \in {"none", "created", "running"}
    /\ \E src \in Readable :
         LET run == RunGenerator(src.lines, s.hasValidate, 0)
             how == IF run.how = "exhausted" /\ src.fails THEN "raised" ELSE run.how
             rest == SubSeq(s.input, run.used + 1, Len(s.input))
         IN  IF how = "yield"
             THEN s' = [s EXCEPT !.iterator = "running", !.input = rest,
                                 !.events = Append(s.events, run.event[1])]
             ELSE s' = [s EXCEPT !.iterator = IF how = "raised" THEN "raised" ELSE "finished",
                                 !.input = rest,
                                 !.responseClosed = s.responseClosed \/ FinallyCloses(how)]
    /\ UNCHANGED <<client, helper, w, t, wire, h, cc, pr>>

\* __next__ / __anext__ and a new for-loop after the generator has ended:
\* __iter__ hands out the same generator, which raises StopIteration (or
\* StopAsyncIteration) and produces nothing.
PullEnded ==
    /\ s.state = "open"
    /\ s.iterator \in {"finished", "raised"}
    /\ ~s.stopped
    /\ s' = [s EXCEPT !.stopped = TRUE]
    /\ UNCHANGED <<client, helper, w, t, wire, h, cc, pr>>

\* close() / await close(): self.response.close()
CloseStream ==
    /\ s.state = "open"
    /\ s.closeCalls < MaxCloses
    /\ LET closed == StreamClose(s.responseClosed)
       IN  s' = [s EXCEPT !.responseClosed = closed.closed, !.closeCalls = s.closeCalls + 1,
                          !.closeRaised = s.closeRaised \/ closed.raised]
    /\ UNCHANGED <<client, helper, w, t, wire, h, cc, pr>>

\* with stream: / async with stream:
EnterStream ==
    /\ s.state = "open"
    /\ s.scope = "out"
    /\ s' = [s EXCEPT !.scope = "in"]
    /\ UNCHANGED <<client, helper, w, t, wire, h, cc, pr>>

\* The block ends, normally or by an exception: __exit__ calls close().
ExitStream ==
    /\ s.state = "open"
    /\ s.scope = "in"
    /\ \E raised \in BOOLEAN :
         LET closed == StreamClose(s.responseClosed)
         IN  s' = [s EXCEPT !.scope = "exited", !.blockRaised = raised,
                            !.responseClosed = closed.closed, !.closeCalls = s.closeCalls + 1,
                            !.closeRaised = s.closeRaised \/ closed.raised]
    /\ UNCHANGED <<client, helper, w, t, wire, h, cc, pr>>

(***************************************************************************)
(*            kafeido/_http_client.py and kafeido/types/errors.py          *)
(***************************************************************************)
MaxRetries == 2     \* largest max_retries given to a transport

\* What one self._client.request(...) can end in: a response with a status
\* code and a body, or an httpx exception.
StatusCodes == {200, 204, 400, 401, 403, 404, 409, 418, 422, 429, 500, 503}
Bodies == {"not-json", "list", "no-error", "error-dict-message",
           "error-dict-empty-message", "error-dict-no-message", "error-string"}
Exceptions == {"TimeoutException", "ConnectError", "ReadError"}
AttemptOutcomes ==
    {[kind |-> "response", code |-> c, body |-> b, exc |-> ""] :
         c \in StatusCodes, b \in Bodies}
        \cup {[kind |-> "exception", code |-> 0, body |-> "", exc |-> e] : e \in Exceptions}

\* response.is_success
IsSuccess(code) == 200 <= code /\ code <= 299

\* error_from_response, the message taken from the body: None when the body
\* is not JSON or not an object.
BodyMessage(body) ==
    CASE body = "error-dict-message" -> Some("quota exceeded")
      [] body = "error-string" -> Some("model not found")
      [] body \in {"error-dict-empty-message", "error-dict-no-message", "no-error"} -> Some("")
      [] OTHER -> None

\* A variant of the mapping that knows 500 as the only server error.
ErrorClassOnly500(status_code) ==
    CASE status_code = 400 -> "BadRequestError"
      [] status_code = 401 -> "AuthenticationError"
      [] status_code = 403 -> "PermissionDeniedError"
      [] status_code = 404 -> "NotFoundError"
      [] status_code = 409 -> "ConflictError"
      [] status_code = 422 -> "UnprocessableEntityError"
      [] status_code = 429 -> "RateLimitError"
      [] status_code = 500 -> "InternalServerError"
      [] OTHER -> "APIStatusError"

\* error_from_response, the exception class for a status code.
ErrorClass(status_code) ==
    CASE status_code = 400 -> "BadRequestError"
      [] status_code = 401 -> "AuthenticationError"
      [] status_code = 403 -> "PermissionDeniedError"
      [] status_code = 404 -> "NotFoundError"
      [] status_code = 409 -> "ConflictError"
      [] status_code = 422 -> "UnprocessableEntityError"
      [] status_code = 429 -> "RateLimitError"
      [] status_code >= 500 -> "InternalServerError"
      [] OTHER -> "APIStatusError"

HttpReturned(value) ==
    [kind |-> "returned", type |-> value, status_code |-> None, message |-> <<>>]
HttpRaised(type, status_code, message) ==
    [kind |-> "raised", type |-> type, status_code |-> status_code, message |-> message]

\* error_from_response(response)
ErrorFromResponse(status_code, body) ==
    LET fromBody == BodyMessage(body)
        message  == IF fromBody = None \/ fromBody = Some("")
                    THEN <<"Error code: ", ToString(status_code)>>
                    ELSE <<fromBody[1]>>
    IN  HttpRaised(ErrorClass(status_code), Some(status_code), message)

\* The errors the retry loop builds from httpx's exceptions.
APITimeoutError == HttpRaised("APITimeoutError", None, <<"Request timed out after ", "timeout", "s">>)
APIConnectionError == HttpRaised("APIConnectionError", None, <<"Connection failed: ", "reason">>)

\* A variant of the retry test that allows one attempt more.
MayRetryOnceMore(attempt, max_retries) == attempt <= max_retries

\* if attempt < self.max_retries
MayRetry(attempt, max_retries) == attempt < max_retries

\* A variant of the delay that does not grow.
BackoffDelayFlat(attempt) == 1

\* time.sleep(2 ** attempt) / await asyncio.sleep(2 ** attempt)
BackoffDelay(attempt) == 2 ^ attempt

IdleRequest ==
    [pc |-> "idle", kind |-> "", max_retries |-> 0, stream |-> FALSE,
     attempt |-> 0, attempts |-> 0, outcomes |-> <<>>, sleeps |-> <<>>,
     last_error |-> None, result |-> None]

\* A variant of request() that sleeps before its first attempt.
RequestSleepingFirst ==
    /\ h.pc = "idle"
    /\ \E kind \in {"sync", "async"}, max_retries \in 0..MaxRetries, stream \in BOOLEAN :
         h' = [IdleRequest EXCEPT !.pc = "attempt", !.kind = kind,
                                  !.max_retries = max_retries, !.stream = stream,
                                  !.sleeps = <<BackoffDelay(0)>>]
    /\ UNCHANGED <<client, helper, w, t, wire, s, cc, pr>>

\* HTTPClient.request / AsyncHTTPClient.request is called on a transport
\* built with max_retries; the loop starts at attempt 0.
Request ==
    /\ h.pc = "idle"
    /\ \E kind \in {"sync", "async"}, max_retries \in 0..MaxRetries, stream \in BOOLEAN :
         h' = [IdleRequest EXCEPT !.pc = "attempt", !.kind = kind,
                                  !.max_retries = max_retries, !.stream = stream]
    /\ UNCHANGED <<client, helper, w, t, wire, s, cc, pr>>

\* A variant of the attempt that treats an error status like a connection
\* failure and retries it.
AttemptRetryingStatus ==
    /\ h.pc = "attempt"
    /\ \E o \in AttemptOutcomes :
         LET made == [h EXCEPT !.attempts = h.attempts + 1,
                               !.outcomes = Append(h.outcomes, o)]
             failed == IF o.kind = "exception" /\ o.exc = "TimeoutException"
                       THEN APITimeoutError ELSE APIConnectionError
         IN  IF o.kind = "response" /\ IsSuccess(o.code)
             THEN h' = [made EXCEPT !.pc = "done",
                           !.result = Some(IF h.stream THEN HttpReturned("Response")
                                           ELSE IF o.body = "not-json"
                                           THEN HttpRaised("JSONDecodeError", None, <<>>)
                                           ELSE HttpReturned("json"))]
             ELSE IF o.kind = "exception" /\ o.exc = "ReadError"
             THEN h' = [made EXCEPT !.pc = "done",
                           !.result = Some(HttpRaised("httpx.ReadError", None, <<>>))]
             ELSE IF MayRetry(h.attempt, h.max_retries)
             THEN h' = [made EXCEPT !.pc = "backoff", !.last_error = Some(failed)]
             ELSE h' = [made EXCEPT !.pc = "done", !.last_error = Some(failed),
                           !.result = Some(IF o.kind = "response"
                                           THEN ErrorFromResponse(o.code, o.body)
                                           ELSE failed)]
    /\ UNCHANGED <<client, helper, w, t, wire, s, cc, pr>>

\* One pass of the loop body up to its return, raise or sleep:
\*   response = self._client.request(...)
\*   if not response.is_success: raise error_from_response(response)
\*   if stream: return response
\*   return response.json()
\*   except httpx.TimeoutException / httpx.ConnectError: build last_error;
\*       if attempt < self.max_retries: sleep and continue; raise last_error
\* Every other exception leaves the loop unchanged.
Attempt ==
    /\ h.pc = "attempt"
    /\ \E o \in AttemptOutcomes :
         LET made == [h EXCEPT !.attempts = h.attempts + 1,
                               !.outcomes = Append(h.outcomes, o)]
             failed == IF o.exc = "TimeoutException" THEN APITimeoutError
                       ELSE APIConnectionError
         IN  IF o.kind = "response"
             THEN IF ~IsSuccess(o.code)
                  THEN h' = [made EXCEPT !.pc = "done",
                                !.result = Some(ErrorFromResponse(o.code, o.body))]
                  ELSE h' = [made EXCEPT !.pc = "done",
                                !.result = Some(IF h.stream THEN HttpReturned("Response")
                                                ELSE IF o.body = "not-json"
                                                THEN HttpRaised("JSONDecodeError", None, <<>>)
                                                ELSE HttpReturned("json"))]
             ELSE IF o.exc = "ReadError"
             THEN h' = [made EXCEPT !.pc = "done",
                           !.result = Some(HttpRaised("httpx.ReadError", None, <<>>))]
             ELSE IF MayRetry(h.attempt, h.max_retries)
             THEN h' = [made EXCEPT !.pc = "backoff", !.last_error = Some(failed)]
             ELSE h' = [made EXCEPT !.pc = "done", !.last_error = Some(failed),
                           !.result = Some(failed)]
    /\ UNCHANGED <<client, helper, w, t, wire, s, cc, pr>>

\* time.sleep(2 ** attempt); continue
Backoff ==
    /\ h.pc = "backoff"
    /\ h' = [h EXCEPT !.pc = "attempt", !.attempt = h.attempt + 1,
                      !.sleeps = Append(h.sleeps, BackoffDelay(h.attempt))]
    /\ UNCHANGED <<client, helper, w, t, wire, s, cc, pr>>

\* request() has returned or raised; the transport takes the next request.
RequestDone ==
    /\ h.pc = "done"
    /\ h' = IdleRequest
    /\ UNCHANGED <<client, helper, w, t, wire, s, cc, pr>>

(***************************************************************************)
(*                          The specifications                             *)
(***************************************************************************)
Init ==
    /\ client \in {"none", "sync", "async"}
    /\ helper \in IF client = "none" THEN {Some(d) : d \in DirectHelpers}
                  ELSE {ClientWarmupHelper(client)}
    /\ w = IdleCall
    /\ t = IdleSession
    /\ wire = <<>>
    /\ s = IdleStream
    /\ h = IdleRequest
    /\ cc = IdleCalls
    /\ pr = IdlePair

Next ==
    \/ WaitForReady
    \/ Create
    \/ TriggerWarmup
    \/ DeadlineCheck
    \/ CheckStatus
    \/ PollSleep
    \/ SendRequest
    \/ Finish

Spec == Init /\ [][Next]_vars

\* One wait_for_ready call on a helper used directly, whose callables and
\* sleeps return: every step of the call that can be taken is taken in the end.
LInit ==
    /\ client = "none"
    /\ helper \in {Some(d) : d \in DirectHelpers}
    /\ w = IdleCall
    /\ t = IdleSession
    /\ wire = <<>>
    /\ s = IdleStream
    /\ h = IdleRequest
    /\ cc = IdleCalls
    /\ pr = IdlePair

LNext ==
    \/ WaitForReady
    \/ TriggerWarmup
    \/ DeadlineCheck
    \/ CheckStatus
    \/ PollSleep

SpecTermination ==
    /\ LInit
    /\ [][LNext]_vars
    /\ WF_vars(TriggerWarmup)
    /\ WF_vars(DeadlineCheck)
    /\ WF_vars(CheckStatus)
    /\ WF_vars(PollSleep)

TInit ==
    /\ client = "none"
    /\ helper = None
    /\ w = IdleCall
    /\ t = IdleSession
    /\ wire = <<>>
    /\ s = IdleStream
    /\ h = IdleRequest
    /\ cc = IdleCalls
    /\ pr = IdlePair

TNext ==
    \/ SyncConstruct
    \/ AsyncConstruct
    \/ SendConfig
    \/ SendAudio
    \/ Recv
    \/ IterNext
    \/ IterAgain
    \/ Close
    \/ EnterScope
    \/ ExitScope

SpecTranscription == TInit /\ [][TNext]_vars

SInit ==
    /\ client = "none"
    /\ helper = None
    /\ w = IdleCall
    /\ t = IdleSession
    /\ wire = <<>>
    /\ s = IdleStream
    /\ h = IdleRequest
    /\ cc = IdleCalls
    /\ pr = IdlePair

SNext ==
    \/ OpenStream
    \/ Iter
    \/ Pull
    \/ PullEnded
    \/ CloseStream
    \/ EnterStream
    \/ ExitStream

SpecStream == SInit /\ [][SNext]_vars

\* A stream that is only iterated: the decoding of one response body.
DNext ==
    \/ OpenBody
    \/ Iter
    \/ Pull
    \/ PullEnded

SpecDecode == SInit /\ [][DNext]_vars

CInit ==
    /\ client = "none"
    /\ helper \in {Some(d) : d \in SharedHelpers}
    /\ w = IdleCall
    /\ t = IdleSession
    /\ wire = <<>>
    /\ s = IdleStream
    /\ h = IdleRequest
    /\ cc = IdleCalls
    /\ pr = IdlePair

CNext ==
    \/ Tick
    \/ \E i \in Calls : CallStart(i)
    \/ \E i \in Calls : CallTrigger(i)
    \/ \E i \in Calls : CallDeadlineCheck(i)
    \/ \E i \in Calls : CallCheckStatus(i)
    \/ \E i \in Calls : CallWake(i)

SpecConcurrent == CInit /\ [][CNext]_vars

PNext ==
    \/ PairStart
    \/ PairPass

SpecPair == SInit /\ [][PNext]_vars

MNext ==
    \/ OpenStream
    \/ Iter
    \/ IterShared
    \/ Pull
    \/ PullEnded

SpecMixed == SInit /\ [][MNext]_vars

HNext ==
    \/ Request
    \/ Attempt
    \/ Backoff
    \/ RequestDone

SpecTransport == SInit /\ [][HNext]_vars

\* One closable object at a time: a program run that works with an SSE
\* stream or with a transcription session.
ONext ==
    \/ t = IdleSession /\ SNext
    \/ s = IdleStream /\ TNext

SpecObjects == SInit /\ [][ONext]_vars

(***************************************************************************)
(*                    Claims about the warm-up helpers                     *)
(***************************************************************************)
InWaitForReady == w.pc \in {"check", "status", "sleep", "ok", "timeout", "raised"}

\* C1: in every wait_for_ready call the trigger callable is invoked exactly
\* once, with the call's model, before any status check, whatever the
\* trigger answers and however the call ends.
C1_TriggerExactlyOnce ==
    /\ Len(w.triggerArgs) <= 1
    /\ w.pc = "trigger" => w.triggerArgs = <<>> /\ w.statusCalls = 0
    /\ InWaitForReady => w.triggerArgs = <<w.model>>
    /\ w.statusCalls > 0 => w.triggerArgs = <<w.model>>

C1_Witness ==
    /\ w.pc = "timeout"
    /\ w.statusCalls >= 2
    /\ w.triggerArgs = <<w.model>>

\* C2: when the trigger reports already_warm = true, wait_for_ready returns
\* success with no status check and no poll-interval sleep.
C2_AlreadyWarmNoPolling ==
    w.already_warm = Some(TRUE) =>
        /\ w.pc \in {"ok", "sent"}
        /\ w.exc = None
        /\ w.statusCalls = 0
        /\ w.sleeps = 0

C2_Witness ==
    /\ w.pc = "ok"
    /\ w.already_warm = Some(TRUE)
    /\ w.triggerArgs = <<w.model>>

\* C3: when the trigger reports not warm and the status callable answers
\* not-healthy N times and then healthy, a call that succeeds has made
\* exactly N+1 status checks and N sleeps; no call polls past the healthy
\* answer.
C3_PollsUntilHealthy ==
    /\ (w.pc = "ok" /\ w.already_warm = Some(FALSE)) =>
          /\ w.healthyAt # NeverHealthy
          /\ w.statusCalls = w.healthyAt + 1
          /\ w.sleeps = w.healthyAt
    /\ (w.healthyAt # NeverHealthy /\ InWaitForReady) =>
          /\ w.statusCalls <= w.healthyAt + 1
          /\ w.sleeps <= w.healthyAt

C3_Witness ==
    /\ w.pc = "ok"
    /\ w.already_warm = Some(FALSE)
    /\ w.healthyAt = 2
    /\ w.statusCalls = 3
    /\ w.sleeps = 2

\* C4 as stated: a call that never sees healthy fails with WarmupTimeout
\* carrying its model and waited_seconds >= T, and waited_seconds exceeds T by
\* at most one poll interval.
C4_OvershootAtMostOnePoll ==
    (w.pc = "timeout" /\ w.healthyAt = NeverHealthy) =>
        /\ w.exc = Some(WarmupTimeoutError(w.model, w.elapsed))
        /\ w.elapsed >= w.max_wait
        /\ w.elapsed <= w.max_wait + helper[1].poll_interval

\* C4 amended: every WarmupTimeout carries the call's model and
\* waited_seconds >= T, and after at least one status check waited_seconds
\* exceeds T by less than the time the last status check and the last sleep
\* took together.
C4_OvershootBelowLastRound ==
    w.pc = "timeout" =>
        /\ w.exc = Some(WarmupTimeoutError(w.model, w.elapsed))
        /\ w.elapsed >= w.max_wait
        /\ w.statusCalls > 0 =>
              w.elapsed - w.max_wait < w.lastStatusDur + w.lastSleepDur

C4_Witness ==
    /\ w.pc = "timeout"
    /\ w.healthyAt = NeverHealthy
    /\ w.statusCalls >= 2
    /\ w.elapsed > w.max_wait + helper[1].poll_interval

\* C5: a request made with wait_for_ready=True is sent only after the trigger
\* was issued and the model was seen ready, and never after a WarmupTimeout,
\* through the synchronous and the asynchronous client alike.
C5_WarmupBeforeRequest ==
    (client # "none" /\ w.wait /\ w.requests > 0) =>
        /\ w.triggerArgs = <<w.model>>
        /\ w.already_warm = Some(TRUE) \/ IsHealthy(w.lastStatus)
        /\ w.exc = None

\* C18: wait_for_ready raises nothing of its own but WarmupTimeout; a failure
\* raised by the trigger callable or by a status check leaves the call at
\* once and unchanged, with no further trigger, status check or sleep.
C18_CallableFailurePropagates ==
    /\ w.thrown # None =>
          /\ w.pc = "raised"
          /\ w.exc = w.thrown
          /\ w.requests = 0
    /\ w.exc # None =>
          \/ w.pc = "raised" /\ w.exc = w.thrown
          \/ /\ w.pc = "timeout"
             /\ w.thrown = None
             /\ w.exc[1].type = "WarmupTimeoutError"
    /\ w.pc = "raised" => w.thrown # None

C18_Witness ==
    /\ w.pc = "raised"
    /\ w.statusCalls = 2
    /\ w.sleeps = 1
    /\ w.triggerArgs = <<w.model>>
    /\ w.exc = Some(CallableStatusError)

\* C19: the effective timeout of a wait_for_ready call is the call-site
\* timeout whenever one is given, 0 included, and the helper's configured
\* max_wait_time otherwise; a per-call override leaves the configured default
\* as it was for later calls on the same helper.
C19_EffectiveTimeout ==
    /\ []((w.pc = "trigger" \/ InWaitForReady) =>
             w.max_wait = (IF w.timeout = None THEN helper[1].max_wait_time
                           ELSE w.timeout[1]))
    /\ [][helper' = helper]_vars

C19_Witness ==
    /\ w.overridden
    /\ w.pc = "timeout"
    /\ w.timeout = None
    /\ helper[1].max_wait_time = 2
    /\ w.max_wait = 2
    /\ w.elapsed >= 2

\* C20: concurrent wait_for_ready calls on one helper, for different models
\* or the same one, are independent: under every interleaving each call
\* issues its own single trigger, makes the status checks its own answers
\* call for, measures its deadline from its own start, and ends as it would
\* alone, whatever the other call does; the helper itself is not changed.
C20_CallsIndependent ==
    /\ \A i \in Calls :
          LET c == cc.calls[i]
          IN  /\ c.triggers = (IF c.pc \in {"idle", "trigger"} THEN 0 ELSE 1)
              /\ c.healthyAt # NeverHealthy => c.statusCalls <= c.healthyAt + 1
              /\ (c.pc = "ok" /\ c.statusCalls > 0) =>
                     c.healthyAt # NeverHealthy /\ c.statusCalls = c.healthyAt + 1
              /\ c.pc = "timeout" =>
                     /\ c.checkedAt - c.start_time >= c.max_wait
                     /\ c.exc = Some(WarmupTimeoutError(c.model, c.checkedAt - c.start_time))
              /\ c.pc = "status" => c.checkedAt - c.start_time < c.max_wait
              /\ c.pc = "raised" => c.exc = Some(CallableError)
              /\ c.sleeps <= c.statusCalls
    /\ helper \in {Some(d) : d \in SharedHelpers}

C20_Witness ==
    /\ cc.calls[1].pc = "timeout"
    /\ cc.calls[2].pc = "ok"
    /\ cc.calls[1].model = cc.calls[2].model
    /\ cc.calls[1].start_time < cc.calls[2].start_time
    /\ cc.calls[2].statusCalls = 2
    /\ cc.calls[1].statusCalls >= 1

\* C21: the blocking WarmupHelper and the cooperative AsyncWarmupHelper,
\* built alike and given the same trigger answers, status answers and clock
\* readings, make the same trigger, status-check and sleep steps in the same
\* order and end with the same outcome.
C21_SyncAsyncEquivalent ==
    /\ pr.sync.trace = pr.async.trace
    /\ pr.sync.pc = pr.async.pc
    /\ pr.sync.exc = pr.async.exc
    /\ pr.sync.now = pr.async.now

C21_Witness ==
    /\ pr.sync.pc = "timeout"
    /\ pr.async.pc = "timeout"
    /\ pr.sync.trace = <<"trigger", "status", "sleep", "status", "sleep">>
    /\ pr.async.trace = pr.sync.trace
    /\ pr.sync.exc = pr.async.exc

\* C23 as stated: no status check is issued once elapsed >= the effective
\* timeout, and a call never succeeds on a model that is seen healthy only
\* once the deadline has passed.
C23_NoSuccessPastDeadline ==
    /\ w.pc = "status" => w.now - w.start_time < w.max_wait
    /\ (w.pc = "ok" /\ w.already_warm = Some(FALSE)) =>
          w.now - w.start_time < w.max_wait

\* C23, amended: no status check is issued once elapsed >= the effective
\* timeout, so a call succeeds only on the answer to a status check that was
\* issued before the deadline; a model not healthy in any of those answers
\* yields WarmupTimeout.
C23_NoCheckPastDeadline ==
    /\ w.pc = "status" =>
          /\ w.elapsed = w.now - w.start_time
          /\ w.elapsed < w.max_wait
    /\ (w.pc = "ok" /\ w.already_warm = Some(FALSE)) =>
          /\ w.statusCalls > 0
          /\ w.now - w.lastStatusDur - w.start_time < w.max_wait
    /\ w.pc = "timeout" =>
          /\ ~IsHealthy(w.lastStatus)
          /\ w.now - w.start_time >= w.max_wait

C23_Witness ==
    /\ w.pc = "timeout"
    /\ w.statusCalls = 2
    /\ w.healthyAt = 2
    /\ w.now - w.start_time >= w.max_wait
    /\ ~IsHealthy(w.lastStatus)

\* ceil(T / p) for a positive p
CeilDiv(T, p) == (T + p - 1) \div p

\* C28: with a positive poll interval p and effective timeout T, a
\* wait_for_ready call whose callables return makes at most ceil(T / p) status
\* checks and always comes to an end, in success or in WarmupTimeout (or in
\* the failure a callable raised); it never polls forever.
C28_Terminates ==
    /\ [](InWaitForReady =>
             w.statusCalls <= CeilDiv(w.max_wait, helper[1].poll_interval))
    /\ (w.pc = "trigger") ~> (w.pc \in {"ok", "timeout", "raised"})
    /\ [](w.pc \in {"ok", "timeout", "raised"} =>
             /\ w.pc = "raised" <=> w.thrown # None
             /\ w.pc = "timeout" => w.exc = Some(WarmupTimeoutError(w.model, w.elapsed)))

C28_Witness ==
    /\ w.pc = "timeout"
    /\ w.thrown = None
    /\ helper[1].poll_interval = 2
    /\ w.max_wait = 3
    /\ w.statusCalls = 2
    /\ w.statusCalls = CeilDiv(w.max_wait, helper[1].poll_interval)

\* C29: the timeout clock starts when the trigger has returned: the time the
\* trigger took is in neither elapsed nor waited_seconds, the first deadline
\* check reads elapsed = 0, and with a positive effective timeout the first
\* status check is issued however long the trigger took.
C29_ClockStartsAfterTrigger ==
    /\ (w.pc = "check" /\ w.statusCalls = 0) => w.now = w.start_time
    /\ (w.pc = "status" /\ w.statusCalls = 0) => w.elapsed = 0
    /\ w.pc = "timeout" =>
          /\ w.elapsed = w.now - w.start_time
          /\ w.exc[1].waited_seconds = w.now - w.start_time
          /\ w.max_wait > 0 => w.statusCalls >= 1

C29_Witness ==
    /\ w.pc = "timeout"
    /\ w.start_time >= 1
    /\ w.max_wait = 1
    /\ w.statusCalls >= 1
    /\ w.elapsed = w.now - w.start_time

\* A health answer with no status object, with no status string, or with a
\* status string other than exactly "healthy".
NotExactlyHealthy(answer) ==
    \/ answer = None
    \/ answer[1].status = None
    \/ answer[1].status[1] # "healthy"

\* C30: a health answer with no status object, no status string or a status
\* string other than exactly "healthy" neither ends the call in success nor
\* makes it fail: the call sleeps one poll interval after it, once, and goes
\* round the loop again.
C30_NotHealthyPollsOn ==
    /\ (w.pc \in {"ok", "sent"} /\ w.already_warm = Some(FALSE)) =>
          ~NotExactlyHealthy(w.lastStatus)
    /\ (InWaitForReady /\ w.statusCalls > 0 /\ w.thrown = None
           /\ NotExactlyHealthy(w.lastStatus)) =>
          /\ w.pc \in {"sleep", "check", "status", "timeout"}
          /\ w.pc = "sleep" => w.sleeps = w.statusCalls - 1 /\ w.exc = None
          /\ w.pc \in {"check", "status", "timeout"} =>
                /\ w.sleeps = w.statusCalls
                /\ w.lastSleepDur >= helper[1].poll_interval

C30_Witness ==
    /\ w.pc = "status"
    /\ w.statusCalls = 2
    /\ w.sleeps = 2
    /\ w.lastStatus = Some([status |-> Some("Healthy")])
    /\ w.thrown = None

(***************************************************************************)
(*             Claims about the streaming-transcription sessions           *)
(***************************************************************************)
\* C6: in every session, synchronous and asynchronous, the first frame on
\* the connection is the JSON serialisation of the constructor's config, it
\* is sent exactly once, and no audio precedes it, whatever the caller does.
C6_ConfigIsFirstFrame ==
    /\ t.state = "open" /\ t.kind = "sync" => wire # <<>>
    /\ wire # <<>> =>
          /\ wire[1] = TextFrame(JsonDumps(t.config))
          /\ \A i \in 2..Len(wire) : wire[i].type = "binary"

\* C7: every inbound frame that carries an error field is surfaced to the
\* consumer as a failure, on the recv() path and on the iteration path.
C7_ErrorFramesSurfaced == t.errorsRead = t.errorsSurfaced

\* C8: recv() on a frame with error field X fails with an APIError whose
\* message is X and returns nothing; on a frame without an error field it
\* returns the frame in the TranscriptionFrame shape (segments defaulting to
\* the empty list, language and language_prob to None).
C8_RecvErrorOrFrame ==
    (t.last # None /\ t.lastRaw # None) =>
        LET data == t.lastRaw[1]
            out  == t.last[1]
        IN  IF data.error # Absent
            THEN /\ out.kind = "raised"
                 /\ out.type = "APIError"
                 /\ out.message = data.error[1]
                 /\ out.value = None
            ELSE /\ out.kind = "returned"
                 /\ DOMAIN out.value[1] = {"segments", "language", "language_prob"}
                 /\ out.value[1].segments =
                        (IF data.segments = Absent THEN <<>> ELSE data.segments[1])
                 /\ out.value[1].language = data.language
                 /\ out.value[1].language_prob = None

C8_Witness ==
    /\ t.last # None
    /\ t.lastRaw # None
    /\ t.lastRaw[1].error = Some("model not found")
    /\ t.lastRaw[1].segments # Absent
    /\ t.last[1].kind = "raised"
    /\ t.last[1].message = "model not found"

\* C10: every connection a session opens is released on every exit path:
\* the scoped block completing, an exception in the block, iteration
\* abandoned before the scope exit, and a failure while opening.
C10_ConnectionReleased ==
    (t.wsAcquired /\ (t.state = "failed" \/ t.scope = "exited")) => ~t.wsOpen


\* What one iteration received, frame i: recv() returned it.
ReceivedWell(i) ==
    /\ t.iterRaws[i] # None
    /\ RecvOutcome(t.iterRaws[i][1]).kind = "returned"

\* C25: one iteration of a session yields the frames it received well, in
\* arrival order, up to the first receive that raised (an error frame or a
\* closed connection); it ends there without raising to the consumer and
\* yields nothing after.
C25_IterationEndsAtFirstException ==
    /\ t.iter \in {"none", "running", "done"}
    /\ t.iter = "none" => t.iterRaws = <<>> /\ t.yielded = <<>>
    /\ t.iter = "running" =>
          /\ Len(t.yielded) = Len(t.iterRaws)
          /\ \A i \in 1..Len(t.iterRaws) : ReceivedWell(i)
    /\ t.iter = "done" =>
          /\ Len(t.yielded) = Len(t.iterRaws) - 1
          /\ \A i \in 1..Len(t.yielded) : ReceivedWell(i)
          /\ ~ReceivedWell(Len(t.iterRaws))
    /\ \A i \in 1..Len(t.yielded) :
          /\ t.iterRaws[i] # None
          /\ t.yielded[i].segments =
                 (IF t.iterRaws[i][1].segments = Absent THEN <<>>
                  ELSE t.iterRaws[i][1].segments[1])
          /\ t.yielded[i].language = t.iterRaws[i][1].language

C25_Witness ==
    /\ t.iter = "done"
    /\ Len(t.yielded) = 1
    /\ Len(t.iterRaws) = 2
    /\ t.iterRaws[1] # None
    /\ t.iterRaws[1][1].segments # Absent
    /\ t.iterRaws[2] # None
    /\ t.iterRaws[2][1].error # Absent

(***************************************************************************)
(*                      Claims about the SSE streams                       *)
(***************************************************************************)
\* C9: the response behind a Stream / AsyncStream is released on every way
\* of finishing with it: iteration exhausted (sentinel or end of input), an
\* error escaping iteration, close(), and leaving a with-block, also when the
\* consumer stopped iterating early.
C9_ResponseReleased ==
    (\/ s.iterator \in {"finished", "raised"}
     \/ s.closeCalls > 0
     \/ s.scope = "exited") => s.responseClosed

C9_Witness ==
    /\ s.iterator = "raised"
    /\ s.events # <<>>
    /\ s.closeCalls = 0
    /\ s.scope = "out"
    /\ s.responseClosed

\* The lines of the body the generator has read so far.
Consumed == Len(s.source) - Len(s.input)

\* A line whose payload is exactly the sentinel.
IsSentinelLine(line) == Strip(line) = DataMarker \o Sentinel

\* The position of the first sentinel line, or one past the end.
FirstSentinel(lines) ==
    IF \E i \in 1..Len(lines) : IsSentinelLine(lines[i])
    THEN CHOOSE i \in 1..Len(lines) :
             /\ IsSentinelLine(lines[i])
             /\ \A j \in 1..(i - 1) : ~IsSentinelLine(lines[j])
    ELSE Len(lines) + 1

\* The data lines among the first n lines.
DataLinesUpTo(lines, n) ==
    {i \in 1..n : Len(Strip(lines[i])) > MarkerLen
                   /\ SubSeq(Strip(lines[i]), 1, MarkerLen) = DataMarker}

\* C12: a decoded sequence ends at the first line whose payload is exactly
\* [DONE] or at the end of the input, whichever comes first: no line after
\* the sentinel is read, every event comes from a data line before it, the
\* sentinel yields nothing, and neither way of ending raises (a body of only
\* `data: [DONE]` gives zero events).
C12_EndsAtSentinelOrEnd ==
    LET k    == FirstSentinel(s.source)
        last == IF k <= Len(s.source) THEN k ELSE Len(s.source)
    IN  /\ Consumed <= last
        /\ Len(s.events) <= Cardinality(DataLinesUpTo(s.source, Consumed) \ {k})
        /\ s.iterator = "finished" => Consumed = last
        /\ s.iterator = "raised" => s.inputFails /\ k > Len(s.source)
        /\ (s.iterator = "finished" /\ s.source = <<DataMarker \o Sentinel>>) =>
               s.events = <<>>

C12_Witness ==
    /\ s.iterator = "finished"
    /\ Len(s.source) = 4
    /\ FirstSentinel(s.source) = 2
    /\ s.source[3] = DataMarker \o <<"{\"a\":1}">>
    /\ Len(s.events) = 1
    /\ Consumed = 2

\* A well-formed data line: the marker followed by a JSON text that, where
\* the target type validates, has the shape the type requires.
WellFormed(line, hasValidate) ==
    LET l == Strip(line)
    IN  /\ Len(l) = MarkerLen + 1
        /\ SubSeq(l, 1, MarkerLen) = DataMarker
        /\ l[MarkerLen + 1] \in JsonTexts
        /\ hasValidate => JsonValue(l[MarkerLen + 1]).a # Absent

\* The event a well-formed data line stands for.
EventOf(line, hasValidate) ==
    LET value == JsonValue(Strip(line)[MarkerLen + 1])
    IN  IF hasValidate THEN [type |-> "chunk", a |-> value.a[1]] ELSE value

\* The events of the well-formed data lines among `lines`, in order.
RECURSIVE WellFormedEvents(_, _)
WellFormedEvents(lines, hasValidate) ==
    IF lines = <<>> THEN <<>>
    ELSE (IF WellFormed(Head(lines), hasValidate)
          THEN <<EventOf(Head(lines), hasValidate)>> ELSE <<>>)
         \o WellFormedEvents(Tail(lines), hasValidate)

DecodablePositions ==
    LET k      == FirstSentinel(s.source)
        before == IF Consumed < k THEN Consumed ELSE k - 1
    IN  {i \in 1..before : WellFormed(s.source[i], s.hasValidate)}

\* The j-th smallest element of a set of positions.
NthPosition(P, j) == CHOOSE i \in P : Cardinality({x \in P : x < i}) = j - 1

\* C26: the events of one Stream are those of the decodable data lines before
\* the first sentinel, in arrival order and each exactly once -- the j-th
\* event comes from the j-th decodable line -- also when a for-loop is
\* started after next() calls on the same Stream.
C26_EachDecodableLineOnce ==
    /\ Len(s.events) = Cardinality(DecodablePositions)
    /\ \A j \in 1..Len(s.events) :
          s.events[j] = EventOf(s.source[NthPosition(DecodablePositions, j)], s.hasValidate)
    /\ s.iterator = "finished" =>
          Consumed >= (IF FirstSentinel(s.source) <= Len(s.source)
                       THEN FirstSentinel(s.source) ELSE Len(s.source))

C26_Witness ==
    /\ s.iterator = "finished"
    /\ s.reiteratedAt = Some(1)
    /\ Len(s.events) = 2
    /\ s.events[1] # s.events[2]
    /\ DecodablePositions = {1, 2}

\* The whole event sequence the generator gives for `lines`.
RECURSIVE Decode(_, _)
Decode(lines, hasValidate) ==
    LET run == RunGenerator(lines, hasValidate, 0)
    IN  IF run.how = "yield"
        THEN <<run.event[1]>> \o Decode(SubSeq(lines, run.used + 1, Len(lines)), hasValidate)
        ELSE <<>>

\* The line as received starts with the marker.
RawMarked(line) == Len(line) >= MarkerLen /\ SubSeq(line, 1, MarkerLen) = DataMarker

\* The line starts with the marker once its surrounding whitespace is removed.
StrippedMarked(line) == RawMarked(Strip(line))

\* C14 as stated: an input line that does not start with the `data: ` marker
\* gives no event and no error, and does not change how the other lines are
\* decoded.
C14_UnmarkedLinesIgnored ==
    /\ s.iterator = "raised" => s.inputFails
    /\ s.iterator = "finished" =>
           s.events = Decode(SelectSeq(s.source, RawMarked), s.hasValidate)

\* C14 amended: an input line that, with its surrounding whitespace removed,
\* does not start with the `data: ` marker gives no event and no error, and
\* does not change how the other lines are decoded.
C14_UnmarkedAfterStripIgnored ==
    /\ s.iterator = "raised" => s.inputFails
    /\ Len(s.events) <= Len(SelectSeq(SubSeq(s.source, 1, Consumed), StrippedMarked))
    /\ s.iterator = "finished" =>
           s.events = Decode(SelectSeq(s.source, StrippedMarked), s.hasValidate)

C14_Witness ==
    /\ s.iterator = "finished"
    /\ s.source = <<<<>>,
                    <<"e", "v", "e", "n", "t", ":", "{\"a\":1}">>,
                    <<Space>> \o DataMarker \o <<"{\"a\":2}">> \o <<Space>>,
                    DataMarker \o <<"{\"a\":1}">>>>
    /\ Len(s.events) = 2

Retryable(o) == o.kind = "exception" /\ o.exc \in {"TimeoutException", "ConnectError"}

\* C16: with max_retries = R >= 0, a request whose every attempt fails with a
\* connection or timeout failure is attempted exactly R+1 times and then
\* surfaces that failure as APIConnectionError or APITimeoutError; no
\* request() call makes more than R+1 attempts, and a successful attempt is
\* the last one.
C16_AttemptsWithinBudget ==
    /\ h.attempts <= h.max_retries + 1
    /\ h.attempts = Len(h.outcomes)
    /\ \A i \in 1..Len(h.outcomes) :
          (h.outcomes[i].kind = "response" /\ IsSuccess(h.outcomes[i].code)) =>
              /\ i = Len(h.outcomes)
              /\ h.pc = "done"
    /\ (h.pc = "done" /\ \A i \in 1..Len(h.outcomes) : Retryable(h.outcomes[i])) =>
          /\ h.attempts = h.max_retries + 1
          /\ h.result = Some(IF h.outcomes[h.attempts].exc = "TimeoutException"
                              THEN APITimeoutError ELSE APIConnectionError)

C16_Witness ==
    /\ h.pc = "done"
    /\ h.max_retries = 2
    /\ h.attempts = 3
    /\ \A i \in 1..3 : Retryable(h.outcomes[i])
    /\ h.result = Some(APITimeoutError)

\* The status-error classes of types/errors.py.
StatusErrorClasses ==
    {"APIStatusError", "BadRequestError", "AuthenticationError", "PermissionDeniedError",
     "NotFoundError", "ConflictError", "UnprocessableEntityError", "RateLimitError",
     "InternalServerError"}

\* C17: a non-2xx response is never retried: it is the last attempt of its
\* request() call, no backoff sleep follows it, and it is surfaced at once as
\* a status error carrying its code, also when retry budget remains and when
\* earlier attempts failed with connection or timeout failures.
C17_StatusNeverRetried ==
    \A i \in 1..Len(h.outcomes) :
        (h.outcomes[i].kind = "response" /\ ~IsSuccess(h.outcomes[i].code)) =>
            /\ i = Len(h.outcomes)
            /\ h.pc = "done"
            /\ Len(h.sleeps) = i - 1
            /\ h.result # None
            /\ h.result[1].kind = "raised"
            /\ h.result[1].type \in StatusErrorClasses
            /\ h.result[1].status_code = Some(h.outcomes[i].code)

C17_Witness ==
    /\ h.pc = "done"
    /\ h.max_retries = 2
    /\ Len(h.outcomes) = 2
    /\ h.outcomes[1].exc = "ConnectError"
    /\ h.outcomes[2].code = 503
    /\ h.sleeps = <<1>>
    /\ h.result[1].type = "InternalServerError"

\* The last attempt of the request() call answered with a non-2xx status.
LastIsStatusError ==
    /\ h.pc = "done"
    /\ Len(h.outcomes) > 0
    /\ h.outcomes[Len(h.outcomes)].kind = "response"
    /\ ~IsSuccess(h.outcomes[Len(h.outcomes)].code)

\* The surfaced error carries the numeric status code and a non-empty message.
CarriesCodeAndMessage ==
    /\ h.result # None
    /\ h.result[1].kind = "raised"
    /\ h.result[1].status_code = Some(h.outcomes[Len(h.outcomes)].code)
    /\ Len(h.result[1].message) > 0
    /\ \A i \in 1..Len(h.result[1].message) : h.result[1].message[i] # ""

\* C22 as stated: every non-2xx response is mapped to one error kind fixed by
\* its status code alone -- 401 authentication, 404 not-found, 409 conflict,
\* 422 validation, 429 rate-limit, 500 and above server error, generic
\* otherwise -- and the error carries the status code and a non-empty message.
C22_KindByStatusCode ==
    LastIsStatusError =>
        LET code == h.outcomes[Len(h.outcomes)].code
        IN  /\ CarriesCodeAndMessage
            /\ h.result[1].type =
                  (CASE code = 401 -> "AuthenticationError"
                     [] code = 404 -> "NotFoundError"
                     [] code = 409 -> "ConflictError"
                     [] code = 422 -> "UnprocessableEntityError"
                     [] code = 429 -> "RateLimitError"
                     [] code >= 500 -> "InternalServerError"
                     [] OTHER -> "APIStatusError")

\* C22, amended: every non-2xx response is mapped to one error kind fixed by
\* its status code alone -- 400 bad-request, 401 authentication, 403
\* permission-denied, 404 not-found, 409 conflict, 422 validation, 429
\* rate-limit, 500 and above server error, generic otherwise -- whatever its
\* body, and the error carries the status code and a non-empty message.
C22_KindByStatusCodeWith400And403 ==
    LastIsStatusError =>
        LET code == h.outcomes[Len(h.outcomes)].code
        IN  /\ CarriesCodeAndMessage
            /\ h.result[1].type =
                  (CASE code = 400 -> "BadRequestError"
                     [] code = 401 -> "AuthenticationError"
                     [] code = 403 -> "PermissionDeniedError"
                     [] code = 404 -> "NotFoundError"
                     [] code = 409 -> "ConflictError"
                     [] code = 422 -> "UnprocessableEntityError"
                     [] code = 429 -> "RateLimitError"
                     [] code >= 500 -> "InternalServerError"
                     [] OTHER -> "APIStatusError")

C22_Witness ==
    /\ LastIsStatusError
    /\ h.outcomes[Len(h.outcomes)].code = 403
    /\ h.outcomes[Len(h.outcomes)].body = "error-dict-empty-message"
    /\ h.result[1].type = "PermissionDeniedError"
    /\ h.result[1].status_code = Some(403)
    /\ h.result[1].message = <<"Error code: ", "403">>

\* C24 as stated: the first backoff delay is the base delay and every further
\* one is the square of the delay before it, in HTTPClient and
\* AsyncHTTPClient alike.
C24_DelaySquared ==
    \A i \in 1..Len(h.sleeps) :
        /\ i = 1 => h.sleeps[i] = 1
        /\ i > 1 => h.sleeps[i] = h.sleeps[i - 1] * h.sleeps[i - 1]

\* C24, amended: the first backoff delay is one second and every further one
\* is twice the delay before it (2 ** attempt), in HTTPClient and
\* AsyncHTTPClient alike.
C24_DelayDoubled ==
    \A i \in 1..Len(h.sleeps) :
        /\ i = 1 => h.sleeps[i] = 1
        /\ i > 1 => h.sleeps[i] = 2 * h.sleeps[i - 1]

C24_Witness ==
    /\ h.kind = "async"
    /\ h.pc = "done"
    /\ h.attempts = 3
    /\ h.sleeps = <<1, 2>>

\* C27: a backoff sleep occurs only between a failed connection/timeout
\* attempt and the next attempt -- none before the first attempt, none after
\* the final attempt, a success or a non-retryable failure -- so a request()
\* call that has made A attempts and is over has slept exactly A-1 times.
C27_SleepsBetweenAttempts ==
    /\ h.pc = "idle" => h.sleeps = <<>>
    /\ h.pc = "attempt" => Len(h.sleeps) = h.attempts
    /\ h.pc = "backoff" =>
          /\ Len(h.sleeps) = h.attempts - 1
          /\ Retryable(h.outcomes[h.attempts])
    /\ h.pc = "done" =>
          /\ h.attempts >= 1
          /\ Len(h.sleeps) = h.attempts - 1
    /\ \A i \in 1..Len(h.sleeps) :
          /\ i <= Len(h.outcomes)
          /\ Retryable(h.outcomes[i])
    /\ \A i \in 1..Len(h.outcomes) :
          ~Retryable(h.outcomes[i]) => Len(h.sleeps) = i - 1

C27_Witness ==
    /\ h.pc = "done"
    /\ h.attempts = 3
    /\ Len(h.sleeps) = 2
    /\ Retryable(h.outcomes[1])
    /\ Retryable(h.outcomes[2])
    /\ h.outcomes[3].kind = "response"
    /\ h.outcomes[3].code = 200

====
